---- MODULE Spec2Model ----
(***************************************************************************)
(* A model of the red-black tree of src/RedBlackTree.cpp.                  *)
(*                                                                         *)
(* The heap is a function from node addresses to node records; a pointer   *)
(* is an address or NULL.  Two RedBlackTree objects are modelled: "T",     *)
(* built by one of the two ordinary constructors, and "T2", built from T   *)
(* by the copy constructor.  Insert is modelled at the granularity of the  *)
(* iterations of the InsertFixUp loop: pc = "idle" between public calls,   *)
(* pc = "fixup" while the Insert call on tree self is inside the loop.     *)
(***************************************************************************)
EXTENDS Integers, Sequences, FiniteSets, TLC

\* ---- bounds of the model ----
MaxKey == 8
MaxNodes == 8
MaxCopyNodes == 5

Keys == 1..MaxKey
TreeIds == {"T", "T2"}

\* ---- program constants ----
NULL == 0
COLOR_RED == "RED"
COLOR_BLACK == "BLACK"

Addr == 1..(2 * MaxKey + 2)
NoTree == "none"

\* Insert allocates while the heap holds fewer than MaxNodes nodes if T is
\* the only tree, and fewer than MaxCopyNodes nodes (of both trees together)
\* once the copy T2 exists.  The copy constructor is not bounded.
Capacity(lv) == IF "T2" \in lv THEN MaxCopyNodes ELSE MaxNodes

VARIABLES
    heap,       \* allocated nodes: address -> RBTNode
    root,       \* root[t]: the member root of tree t
    numItems,   \* numItems[t]: the member numItems of tree t
    live,       \* the trees that have been constructed
    pc,         \* "idle", or "fixup" inside the loop of InsertFixUp
    self,       \* the tree whose Insert is running (NoTree when idle)
    node,       \* the local variable node of InsertFixUp (NULL when idle)
    exc,        \* the exception thrown by the last call, or "none"
    given,      \* given[t]: keys passed to the constructor or a successful Insert
    rotations,  \* rotations done so far by the running InsertFixUp (0 when idle)
    order       \* order.keys: the keys of the successful Insert calls on T, in
                \* call order, recorded when order.on (the scenario specification)

vars == <<heap, root, numItems, live, pc, self, node, exc, given, rotations, order>>

\* ---- the node record ----
RBTNode(data, color, left, right, parent, IsNullNode) ==
    [data |-> data, color |-> color, left |-> left, right |-> right,
     parent |-> parent, IsNullNode |-> IsNullNode]

\* The parent field of a node that `new RBTNode` has just allocated, before
\* any assignment to it (the declaration of RBTNode is in RedBlackTree.h).
UnsetParent == NULL

\* operator new: an address not in use.  The allocator of the model prefers
\* one address per (tree, key), which keeps equal trees at equal addresses.
NodeAddr(t, k) == IF t = "T" THEN k ELSE MaxKey + k
New(h, t, k) ==
    IF NodeAddr(t, k) \notin DOMAIN h THEN NodeAddr(t, k)
    ELSE CHOOSE a \in Addr : a \notin DOMAIN h

\* h with a node stored at the fresh address a
Store(h, a, rec) == [x \in (DOMAIN h) \cup {a} |-> IF x = a THEN rec ELSE h[x]]

\* ---- queries ----
\* The descent of Get taking the right subtree for a smaller key.
RECURSIVE GetFromWrongWay(_, _, _)
GetFromWrongWay(h, curr, data) ==
    IF curr = NULL THEN NULL
    ELSE IF data = h[curr].data THEN curr
    ELSE IF data < h[curr].data THEN GetFromWrongWay(h, h[curr].right, data)
    ELSE GetFromWrongWay(h, h[curr].left, data)

RECURSIVE GetFrom(_, _, _)
GetFrom(h, curr, data) ==
    IF curr = NULL THEN NULL
    ELSE IF data = h[curr].data THEN curr
    ELSE IF data < h[curr].data THEN GetFrom(h, h[curr].left, data)
    ELSE GetFrom(h, h[curr].right, data)

Get(h, rt, data) == GetFrom(h, rt, data)

Contains(h, rt, data) == Get(h, rt, data) # NULL

\* The loop of GetMin run once at most.
LeftMostOneStep(h, curr) == IF h[curr].left # NULL THEN h[curr].left ELSE curr

RECURSIVE LeftMost(_, _)
LeftMost(h, curr) == IF h[curr].left # NULL THEN LeftMost(h, h[curr].left) ELSE curr

RECURSIVE RightMost(_, _)
RightMost(h, curr) == IF h[curr].right # NULL THEN RightMost(h, h[curr].right) ELSE curr

\* An empty-tree test that never holds.
IsEmptyTreeNever(rt) == FALSE

\* root == nullptr (lines 233 and 244)
IsEmptyTree(rt) == rt = NULL

GetMin(h, rt) == IF IsEmptyTree(rt) THEN "underflow_error" ELSE h[LeftMost(h, rt)].data

GetMax(h, rt) == IF IsEmptyTree(rt) THEN "underflow_error" ELSE h[RightMost(h, rt)].data

\* ---- rendering ----
\* The letters of RED and BLACK exchanged.
GetColorStringSwapped(h, n) ==
    IF h[n].color = COLOR_RED THEN "B"
    ELSE IF h[n].color = COLOR_BLACK THEN "R"
    ELSE "D"

GetColorString(h, n) ==
    IF h[n].color = COLOR_RED THEN "R"
    ELSE IF h[n].color = COLOR_BLACK THEN "B"
    ELSE "D"

GetNodeString(h, n) == " " \o GetColorString(h, n) \o ToString(h[n].data) \o " "

RECURSIVE ToInfixString(_, _)
ToInfixString(h, n) ==
    IF n = NULL THEN ""
    ELSE ToInfixString(h, h[n].left) \o GetNodeString(h, n) \o ToInfixString(h, h[n].right)

RECURSIVE ToPrefixString(_, _)
ToPrefixString(h, n) ==
    IF n = NULL THEN ""
    ELSE GetNodeString(h, n) \o ToPrefixString(h, h[n].left) \o ToPrefixString(h, h[n].right)

RECURSIVE ToPostfixString(_, _)
ToPostfixString(h, n) ==
    IF n = NULL THEN ""
    ELSE ToPostfixString(h, h[n].left) \o ToPostfixString(h, h[n].right) \o GetNodeString(h, n)

\* ---- family relations used by the fix-up ----
GetUncle(h, n) ==
    LET grandparent == IF h[n].parent # NULL THEN h[h[n].parent].parent ELSE NULL
    IN  IF grandparent = NULL THEN NULL
        ELSE IF h[grandparent].left = h[n].parent THEN h[grandparent].right
        ELSE h[grandparent].left

IsLeftChild(h, n) == h[n].parent # NULL /\ n = h[h[n].parent].left

IsRightChild(h, n) == h[n].parent # NULL /\ n = h[h[n].parent].right

\* ---- rotations: the result is the new heap and the new root member ----
\* A LeftRotate that also colors the pivot BLACK.
LeftRotateRecolors(h, rt, n) ==
    LET rightChild == h[n].right
        h1 == [h EXCEPT ![n].right = h[rightChild].left]
        h2 == IF h1[rightChild].left # NULL
              THEN [h1 EXCEPT ![h1[rightChild].left].parent = n]
              ELSE h1
        h3 == [h2 EXCEPT ![rightChild].parent = h2[n].parent]
        p  == h3[n].parent
        h4 == IF p = NULL THEN h3
              ELSE IF n = h3[p].left THEN [h3 EXCEPT ![p].left = rightChild]
              ELSE [h3 EXCEPT ![p].right = rightChild]
        h5 == [h4 EXCEPT ![rightChild].left = n]
        h6 == [h5 EXCEPT ![n].parent = rightChild, ![n].color = COLOR_BLACK]
    IN  [heap |-> h6, root |-> IF p = NULL THEN rightChild ELSE rt]

\* LeftRotate with line 163 (node->parent = rightChild) left out.
LeftRotateKeepsParent(h, rt, n) ==
    LET rightChild == h[n].right
        h1 == [h EXCEPT ![n].right = h[rightChild].left]
        h2 == IF h1[rightChild].left # NULL
              THEN [h1 EXCEPT ![h1[rightChild].left].parent = n]
              ELSE h1
        h3 == [h2 EXCEPT ![rightChild].parent = h2[n].parent]
        p  == h3[n].parent
        h4 == IF p = NULL THEN h3
              ELSE IF n = h3[p].left THEN [h3 EXCEPT ![p].left = rightChild]
              ELSE [h3 EXCEPT ![p].right = rightChild]
        h5 == [h4 EXCEPT ![rightChild].left = n]
    IN  [heap |-> h5, root |-> IF p = NULL THEN rightChild ELSE rt]

LeftRotate(h, rt, n) ==
    LET rightChild == h[n].right
        h1 == [h EXCEPT ![n].right = h[rightChild].left]
        h2 == IF h1[rightChild].left # NULL
              THEN [h1 EXCEPT ![h1[rightChild].left].parent = n]
              ELSE h1
        h3 == [h2 EXCEPT ![rightChild].parent = h2[n].parent]
        p  == h3[n].parent
        h4 == IF p = NULL THEN h3
              ELSE IF n = h3[p].left THEN [h3 EXCEPT ![p].left = rightChild]
              ELSE [h3 EXCEPT ![p].right = rightChild]
        h5 == [h4 EXCEPT ![rightChild].left = n]
        h6 == [h5 EXCEPT ![n].parent = rightChild]
    IN  [heap |-> h6, root |-> IF p = NULL THEN rightChild ELSE rt]

RightRotate(h, rt, n) ==
    LET leftChild == h[n].left
        h1 == [h EXCEPT ![n].left = h[leftChild].right]
        h2 == IF h1[leftChild].right # NULL
              THEN [h1 EXCEPT ![h1[leftChild].right].parent = n]
              ELSE h1
        h3 == [h2 EXCEPT ![leftChild].parent = h2[n].parent]
        p  == h3[n].parent
        h4 == IF p = NULL THEN h3
              ELSE IF n = h3[p].left THEN [h3 EXCEPT ![p].left = leftChild]
              ELSE [h3 EXCEPT ![p].right = leftChild]
        h5 == [h4 EXCEPT ![leftChild].right = n]
        h6 == [h5 EXCEPT ![n].parent = leftChild]
    IN  [heap |-> h6, root |-> IF p = NULL THEN leftChild ELSE rt]

\* ---- BasicInsert: the loop finds the last node visited, then the attach ----
RECURSIVE Descend(_, _, _, _)
Descend(h, curr, parent, data) ==
    IF curr = NULL THEN parent
    ELSE IF data < h[curr].data THEN Descend(h, h[curr].left, curr, data)
    ELSE Descend(h, h[curr].right, curr, data)

\* BasicInsert with the comparison of the attach inverted.
BasicInsertWrongSide(h, rt, n) ==
    LET parent == Descend(h, rt, NULL, h[n].data)
        h1 == [h EXCEPT ![n].parent = parent]
    IN  IF parent = NULL THEN [heap |-> h1, root |-> n]
        ELSE IF h1[n].data > h1[parent].data
             THEN [heap |-> [h1 EXCEPT ![parent].left = n], root |-> rt]
             ELSE [heap |-> [h1 EXCEPT ![parent].right = n], root |-> rt]

BasicInsert(h, rt, n) ==
    LET parent == Descend(h, rt, NULL, h[n].data)
        h1 == [h EXCEPT ![n].parent = parent]
    IN  IF parent = NULL THEN [heap |-> h1, root |-> n]
        ELSE IF h1[n].data < h1[parent].data
             THEN [heap |-> [h1 EXCEPT ![parent].left = n], root |-> rt]
             ELSE [heap |-> [h1 EXCEPT ![parent].right = n], root |-> rt]

\* ---- constructors ----
DefaultConstructor ==
    /\ heap = << >>
    /\ root = [t \in TreeIds |-> NULL]
    /\ numItems = [t \in TreeIds |-> 0]
    /\ given = [t \in TreeIds |-> {}]

\* The int constructor with the root left RED.
IntConstructorRedRoot(newData) ==
    LET a == New(<< >>, "T", newData)
    IN  /\ heap = Store(<< >>, a, RBTNode(newData, COLOR_RED, NULL, NULL, NULL, FALSE))
        /\ root = [t \in TreeIds |-> IF t = "T" THEN a ELSE NULL]
        /\ numItems = [t \in TreeIds |-> IF t = "T" THEN 1 ELSE 0]
        /\ given = [t \in TreeIds |-> IF t = "T" THEN {newData} ELSE {}]

IntConstructor(newData) ==
    LET a == New(<< >>, "T", newData)
    IN  /\ heap = Store(<< >>, a, RBTNode(newData, COLOR_BLACK, NULL, NULL, NULL, FALSE))
        /\ root = [t \in TreeIds |-> IF t = "T" THEN a ELSE NULL]
        /\ numItems = [t \in TreeIds |-> IF t = "T" THEN 1 ELSE 0]
        /\ given = [t \in TreeIds |-> IF t = "T" THEN {newData} ELSE {}]

\* The state of the call bookkeeping when the first constructor returns.
NoCall ==
    /\ live = {"T"}
    /\ pc = "idle"
    /\ self = NoTree
    /\ node = NULL
    /\ exc = "none"
    /\ rotations = 0

Init ==
    /\ NoCall
    /\ order = [on |-> FALSE, keys |-> << >>]
    /\ \/ DefaultConstructor
       \/ \E newData \in Keys : IntConstructor(newData)

\* The scenarios start from the empty tree and record the order of the keys.
InitScenario ==
    /\ NoCall
    /\ order = [on |-> TRUE, keys |-> << >>]
    /\ DefaultConstructor

\* ---- Insert ----
\* No duplicate check.
NeverDuplicate(h, rt, newData) == FALSE

\* The duplicate check of line 69.
IsDuplicate(h, rt, newData) == Contains(h, rt, newData)

\* Lines 69-81: the duplicate check, the allocation of the red node and
\* BasicInsert.  The call then enters the loop of InsertFixUp.
Insert(t, newData) ==
    /\ pc = "idle"
    /\ t \in live
    /\ IF IsDuplicate(heap, root[t], newData)
       THEN /\ exc' = "invalid_argument"
            /\ UNCHANGED <<heap, root, numItems, live, pc, self, node, given,
                           rotations, order>>
       ELSE /\ Cardinality(DOMAIN heap) < Capacity(live)
            /\ LET newNode == New(heap, t, newData)
                   h0 == Store(heap, newNode,
                               RBTNode(newData, COLOR_RED, NULL, NULL, NULL, FALSE))
                   r  == BasicInsert(h0, root[t], newNode)
               IN  /\ heap' = r.heap
                   /\ root' = [root EXCEPT ![t] = r.root]
                   /\ node' = newNode
            /\ pc' = "fixup"
            /\ self' = t
            /\ exc' = "none"
            /\ given' = [given EXCEPT ![t] = @ \cup {newData}]
            /\ order' = IF order.on /\ t = "T"
                        THEN [order EXCEPT !.keys = Append(@, newData)]
                        ELSE order
            /\ UNCHANGED <<numItems, live, rotations>>

\* A loop condition that never holds: no fix-up after the structural insert.
LoopCondNever(h, n) == FALSE

\* The loop condition of InsertFixUp (line 115).
LoopCond(h, n) == h[n].parent # NULL /\ h[h[n].parent].color = COLOR_RED

Grandparent(h, n) == h[h[n].parent].parent

UncleIsRed(h, n) == GetUncle(h, n) # NULL /\ h[GetUncle(h, n)].color = COLOR_RED

\* Case 1 with the recoloring of the uncle left out.
RecolorUncleStaysRed(h, n) ==
    LET grandparent == Grandparent(h, n)
        h1 == [h EXCEPT ![h[n].parent].color = COLOR_BLACK]
        h3 == [h1 EXCEPT ![grandparent].color = COLOR_RED]
    IN  [heap |-> h3, node |-> grandparent]

\* Case 1 (lines 119-124): parent and uncle red.
\* A recolor step with line 123 (grandparent->color = COLOR_RED) left out.
RecolorGrandparentStaysBlack(h, n) ==
    LET uncle == GetUncle(h, n)
        grandparent == Grandparent(h, n)
        h1 == [h EXCEPT ![h[n].parent].color = COLOR_BLACK]
        h2 == [h1 EXCEPT ![uncle].color = COLOR_BLACK]
    IN  [heap |-> h2, node |-> grandparent]

\* A recolor step that leaves the current pointer where it is.
RecolorNoClimb(h, n) ==
    LET uncle == GetUncle(h, n)
        grandparent == Grandparent(h, n)
        h1 == [h EXCEPT ![h[n].parent].color = COLOR_BLACK]
        h2 == [h1 EXCEPT ![uncle].color = COLOR_BLACK]
        h3 == [h2 EXCEPT ![grandparent].color = COLOR_RED]
    IN  [heap |-> h3, node |-> n]

Recolor(h, n) ==
    LET uncle == GetUncle(h, n)
        grandparent == Grandparent(h, n)
        h1 == [h EXCEPT ![h[n].parent].color = COLOR_BLACK]
        h2 == [h1 EXCEPT ![uncle].color = COLOR_BLACK]
        h3 == [h2 EXCEPT ![grandparent].color = COLOR_RED]
    IN  [heap |-> h3, node |-> grandparent]

FixUpRecolor ==
    /\ pc = "fixup"
    /\ LoopCond(heap, node)
    /\ UncleIsRed(heap, node)
    /\ LET r == Recolor(heap, node)
       IN  /\ heap' = r.heap
           /\ node' = r.node
    /\ UNCHANGED <<root, numItems, live, pc, self, exc, given, rotations, order>>

\* Lines 127-130: node and parent are left children.
RotateLeftLeft(h, rt, n) ==
    LET grandparent == Grandparent(h, n)
        r  == RightRotate(h, rt, grandparent)
        h1 == [r.heap EXCEPT ![r.heap[n].parent].color = COLOR_BLACK]
        h2 == [h1 EXCEPT ![grandparent].color = COLOR_RED]
    IN  [heap |-> h2, root |-> r.root, node |-> n]

\* The right-right case with the recoloring of the grandparent left out.
RotateRightRightGrandparentStaysBlack(h, rt, n) ==
    LET grandparent == Grandparent(h, n)
        r  == LeftRotate(h, rt, grandparent)
        h1 == [r.heap EXCEPT ![r.heap[n].parent].color = COLOR_BLACK]
    IN  [heap |-> h1, root |-> r.root, node |-> n]

\* Lines 131-134: node and parent are right children.
RotateRightRight(h, rt, n) ==
    LET grandparent == Grandparent(h, n)
        r  == LeftRotate(h, rt, grandparent)
        h1 == [r.heap EXCEPT ![r.heap[n].parent].color = COLOR_BLACK]
        h2 == [h1 EXCEPT ![grandparent].color = COLOR_RED]
    IN  [heap |-> h2, root |-> r.root, node |-> n]

\* The zig-zag case with line 137 (node = node->right) left out.
RotateLeftRightPointerStays(h, rt, n) ==
    LET r == RightRotate(h, rt, h[n].parent)
    IN  [heap |-> r.heap, root |-> r.root, node |-> n]

\* Lines 135-137: node is a left child, its parent a right child.
RotateLeftRight(h, rt, n) ==
    LET r == RightRotate(h, rt, h[n].parent)
    IN  [heap |-> r.heap, root |-> r.root, node |-> r.heap[n].right]

\* Lines 138-141: the remaining case.
RotateRightLeft(h, rt, n) ==
    LET r == LeftRotate(h, rt, h[n].parent)
    IN  [heap |-> r.heap, root |-> r.root, node |-> r.heap[n].left]

\* The rotation that lines 127-141 call for node n, without the recoloring:
\* heap and root after it.
RotationCall(h, rt, n) ==
    IF IsLeftChild(h, n) /\ IsLeftChild(h, h[n].parent)
        THEN RightRotate(h, rt, Grandparent(h, n))
    ELSE IF IsRightChild(h, n) /\ IsRightChild(h, h[n].parent)
        THEN LeftRotate(h, rt, Grandparent(h, n))
    ELSE IF IsLeftChild(h, n) /\ IsRightChild(h, h[n].parent)
        THEN RightRotate(h, rt, h[n].parent)
    ELSE LeftRotate(h, rt, h[n].parent)

\* Cases 2 and 3 (lines 125-142): the if / else-if chain picks the rotation.
RotationCase(h, rt, n) ==
    IF IsLeftChild(h, n) /\ IsLeftChild(h, h[n].parent) THEN RotateLeftLeft(h, rt, n)
    ELSE IF IsRightChild(h, n) /\ IsRightChild(h, h[n].parent) THEN RotateRightRight(h, rt, n)
    ELSE IF IsLeftChild(h, n) /\ IsRightChild(h, h[n].parent) THEN RotateLeftRight(h, rt, n)
    ELSE RotateRightLeft(h, rt, n)

FixUpRotate ==
    /\ pc = "fixup"
    /\ LoopCond(heap, node)
    /\ ~UncleIsRed(heap, node)
    /\ LET r == RotationCase(heap, root[self], node)
       IN  /\ heap' = r.heap
           /\ root' = [root EXCEPT ![self] = r.root]
           /\ node' = r.node
    /\ rotations' = rotations + 1
    /\ UNCHANGED <<numItems, live, pc, self, exc, given, order>>

\* The root left as the loop left it.
RootNotBlackened(h, rt) == h

\* root->color = COLOR_BLACK (lines 144 and 83)
BlackenRoot(h, rt) == [h EXCEPT ![rt].color = COLOR_BLACK]

\* The count left as it was.
CountNotInserted(n) == n

\* numItems++ (line 84)
CountInserted(n) == n + 1

\* The loop ends: line 144, then lines 83-84 of Insert, and Insert returns.
FixUpReturn ==
    /\ pc = "fixup"
    /\ ~LoopCond(heap, node)
    /\ heap' = BlackenRoot(BlackenRoot(heap, root[self]), root[self])
    /\ numItems' = [numItems EXCEPT ![self] = CountInserted(@)]
    /\ pc' = "idle"
    /\ self' = NoTree
    /\ node' = NULL
    /\ rotations' = 0
    /\ UNCHANGED <<root, live, exc, given, order>>

\* ---- the copy constructor ----
\* A shallow copy: the copy is the node itself.
CopyOfShallow(h, n) == [heap |-> h, copy |-> n]

\* A copy that does not copy the colour (every copied node is RED).
RECURSIVE CopyOfNoColor(_, _)
CopyOfNoColor(h, n) ==
    IF n = NULL THEN [heap |-> h, copy |-> NULL]
    ELSE LET copy == New(h, "T2", h[n].data)
             h0 == Store(h, copy, RBTNode(h[n].data, COLOR_RED, NULL, NULL,
                                          UnsetParent, h[n].IsNullNode))
             l  == CopyOfNoColor(h0, h[n].left)
             h1 == [l.heap EXCEPT ![copy].left = l.copy]
             r  == CopyOfNoColor(h1, h[n].right)
             h2 == [r.heap EXCEPT ![copy].right = r.copy]
             h3 == IF h2[copy].left # NULL
                   THEN [h2 EXCEPT ![h2[copy].left].parent = copy] ELSE h2
             h4 == IF h3[copy].right # NULL
                   THEN [h3 EXCEPT ![h3[copy].right].parent = copy] ELSE h3
         IN  [heap |-> h4, copy |-> copy]

\* CopyOf with lines 61-62 left out: no parent reference is rebuilt.
RECURSIVE CopyOfNoParents(_, _)
CopyOfNoParents(h, n) ==
    IF n = NULL THEN [heap |-> h, copy |-> NULL]
    ELSE LET copy == New(h, "T2", h[n].data)
             h0 == Store(h, copy, RBTNode(h[n].data, h[n].color, NULL, NULL,
                                          UnsetParent, h[n].IsNullNode))
             l  == CopyOfNoParents(h0, h[n].left)
             h1 == [l.heap EXCEPT ![copy].left = l.copy]
             r  == CopyOfNoParents(h1, h[n].right)
             h2 == [r.heap EXCEPT ![copy].right = r.copy]
         IN  [heap |-> h2, copy |-> copy]

\* CopyOf(node): the heap after the copies are allocated, and the copy.
RECURSIVE CopyOf(_, _)
CopyOf(h, n) ==
    IF n = NULL THEN [heap |-> h, copy |-> NULL]
    ELSE LET copy == New(h, "T2", h[n].data)
             h0 == Store(h, copy, RBTNode(h[n].data, h[n].color, NULL, NULL,
                                          UnsetParent, h[n].IsNullNode))
             l  == CopyOf(h0, h[n].left)
             h1 == [l.heap EXCEPT ![copy].left = l.copy]
             r  == CopyOf(h1, h[n].right)
             h2 == [r.heap EXCEPT ![copy].right = r.copy]
             h3 == IF h2[copy].left # NULL
                   THEN [h2 EXCEPT ![h2[copy].left].parent = copy] ELSE h2
             h4 == IF h3[copy].right # NULL
                   THEN [h3 EXCEPT ![h3[copy].right].parent = copy] ELSE h3
         IN  [heap |-> h4, copy |-> copy]

CopyConstructor ==
    /\ pc = "idle"
    /\ "T2" \notin live
    /\ LET c == CopyOf(heap, root["T"])
       IN  /\ heap' = c.heap
           /\ root' = [root EXCEPT !["T2"] = c.copy]
    /\ numItems' = [numItems EXCEPT !["T2"] = numItems["T"]]
    /\ live' = live \cup {"T2"}
    /\ given' = [given EXCEPT !["T2"] = given["T"]]
    /\ exc' = "none"
    /\ UNCHANGED <<pc, self, node, rotations, order>>

\* ---- calls of GetMin and GetMax ----
\* The call throws underflow_error on an empty tree and returns a key
\* otherwise; it is const, so only the exception is left behind.
GetMinCall(t) ==
    /\ pc = "idle"
    /\ t \in live
    /\ exc' = IF IsEmptyTree(root[t]) THEN "underflow_error" ELSE "none"
    /\ UNCHANGED <<heap, root, numItems, live, pc, self, node, given, rotations, order>>

GetMaxCall(t) ==
    /\ pc = "idle"
    /\ t \in live
    /\ exc' = IF IsEmptyTree(root[t]) THEN "underflow_error" ELSE "none"
    /\ UNCHANGED <<heap, root, numItems, live, pc, self, node, given, rotations, order>>

Next ==
    \/ \E t \in TreeIds, newData \in Keys : Insert(t, newData)
    \/ FixUpRecolor
    \/ FixUpRotate
    \/ FixUpReturn
    \/ CopyConstructor
    \/ \E t \in TreeIds : GetMinCall(t)
    \/ \E t \in TreeIds : GetMaxCall(t)

Spec == Init /\ [][Next]_vars

\* Insert is a synchronous call: once it has entered InsertFixUp, the loop
\* and the return are executed.
FairSpec == Spec /\ WF_vars(FixUpRecolor \/ FixUpRotate \/ FixUpReturn)

\* ---- the example insertion sequences: keys 10, 20, 30 and 5, 3, 8 ----
ScenarioKeys == {3, 5, 8, 10, 20, 30}

NextScenario ==
    \/ \E newData \in ScenarioKeys : Insert("T", newData)
    \/ FixUpRecolor
    \/ FixUpRotate
    \/ FixUpReturn
    \/ GetMinCall("T")
    \/ GetMaxCall("T")

SpecScenario == InitScenario /\ [][NextScenario]_vars

\* ======================================================================
\* Properties
\* ======================================================================

\* The nodes reachable from n along left and right.
RECURSIVE Reach(_, _, _)
Reach(h, frontier, seen) ==
    IF frontier = {} THEN seen
    ELSE LET next == {c \in UNION {{h[x].left, h[x].right} : x \in frontier} :
                        c # NULL /\ c \notin seen}
         IN  Reach(h, next, seen \cup next)

Nodes(h, n) == IF n = NULL THEN {} ELSE Reach(h, {n}, {n})

NodesOf(t) == Nodes(heap, root[t])

KeysUnder(h, n) == {h[x].data : x \in Nodes(h, n)}

\* A public call on tree t has returned (no Insert on t is in progress).
Returned(t) == t \in live /\ (pc = "idle" \/ self # t)

\* The black nodes on each downward path from n to an absent child, as a set
\* of counts: a singleton exactly when all paths agree.
RECURSIVE BlackCounts(_, _)
BlackCounts(h, n) ==
    IF n = NULL THEN {0}
    ELSE {c + (IF h[n].color = COLOR_BLACK THEN 1 ELSE 0) :
            c \in BlackCounts(h, h[n].left) \cup BlackCounts(h, h[n].right)}

\* The keys in in-order, as a sequence.
RECURSIVE InOrderKeys(_, _)
InOrderKeys(h, n) ==
    IF n = NULL THEN << >>
    ELSE InOrderKeys(h, h[n].left) \o <<h[n].data>> \o InOrderKeys(h, h[n].right)

StrictlyIncreasing(s) == \A i \in 1..(Len(s) - 1) : s[i] < s[i + 1]

IsRed(h, n) == n # NULL /\ h[n].color = COLOR_RED

\* C1: after every public operation has returned, no RED node of a tree has
\* a RED left or right child.
NoRedRed ==
    \A t \in TreeIds : Returned(t) =>
        \A n \in NodesOf(t) :
            IsRed(heap, n) => ~IsRed(heap, heap[n].left) /\ ~IsRed(heap, heap[n].right)

\* C1 witness: a returned tree in which a RED node has two (BLACK) children,
\* reached through recolorings and rotations.
NoRedRedWitness ==
    /\ pc = "idle"
    /\ \E n \in NodesOf("T") :
          /\ IsRed(heap, n)
          /\ heap[n].left # NULL /\ heap[n].right # NULL
          /\ ~IsRed(heap, heap[n].left) /\ ~IsRed(heap, heap[n].right)

\* C2: after every public operation has returned, all downward paths from any
\* node to an absent child hold the same number of BLACK nodes.
BlackHeightUniform ==
    \A t \in TreeIds : Returned(t) =>
        \A n \in NodesOf(t) : Cardinality(BlackCounts(heap, n)) = 1

\* C2 witness: a full tree of MaxNodes keys with black height 2 at the root
\* and a RED inner node.
BlackHeightWitness ==
    /\ pc = "idle"
    /\ numItems["T"] >= 8
    /\ BlackCounts(heap, root["T"]) = {2}
    /\ \E n \in NodesOf("T") : IsRed(heap, n) /\ heap[n].left # NULL

\* C3: after any sequence of Insert calls the tree is a binary search tree
\* without duplicates, and its in-order traversal is strictly increasing.
BSTOrdered ==
    \A t \in TreeIds : Returned(t) =>
        /\ \A n \in NodesOf(t) :
              /\ \A k \in KeysUnder(heap, heap[n].left) : k < heap[n].data
              /\ \A k \in KeysUnder(heap, heap[n].right) : k > heap[n].data
        /\ StrictlyIncreasing(InOrderKeys(heap, root[t]))
        /\ Len(InOrderKeys(heap, root[t])) = Cardinality(NodesOf(t))

\* C3 witness: keys inserted on both sides of the root, three levels deep.
BSTOrderedWitness ==
    /\ pc = "idle"
    /\ Len(InOrderKeys(heap, root["T"])) >= 6
    /\ \E n \in NodesOf("T") :
          /\ heap[n].parent # NULL /\ heap[n].left # NULL /\ heap[n].right # NULL

\* C4: whenever a tree is non-empty after a public operation has returned,
\* its root is BLACK.
RootIsBlack ==
    \A t \in TreeIds :
        Returned(t) /\ root[t] # NULL => heap[root[t]].color = COLOR_BLACK

\* C4 witness: a tree whose root was moved by a rotation and its copy, both
\* with a BLACK root above a RED child.
RootIsBlackWitness ==
    /\ pc = "idle"
    /\ "T2" \in live
    /\ \A t \in TreeIds :
          /\ numItems[t] >= 3
          /\ heap[root[t]].color = COLOR_BLACK
          /\ IsRed(heap, heap[root[t]].left)

\* C5: numItems equals the number of nodes reachable from the root, after
\* construction, Copy and every successful or rejected Insert.
CountMatches ==
    \A t \in TreeIds : Returned(t) => numItems[t] = Cardinality(NodesOf(t))

\* C5 witness: after a rejected Insert on a tree of several nodes next to a
\* copy, the counts are those of the nodes.
CountMatchesWitness ==
    /\ pc = "idle"
    /\ exc = "invalid_argument"
    /\ "T2" \in live
    /\ numItems["T"] = 3 /\ Cardinality(NodesOf("T")) = 3
    /\ numItems["T2"] = 2 /\ Cardinality(NodesOf("T2")) = 2

\* What a caller can observe of tree t: its nodes, root, count and renderings.
TreeView(t) ==
    [nodes   |-> [n \in NodesOf(t) |-> heap[n]],
     root    |-> root[t],
     count   |-> numItems[t],
     infix   |-> ToInfixString(heap, root[t]),
     prefix  |-> ToPrefixString(heap, root[t]),
     postfix |-> ToPostfixString(heap, root[t])]

\* C6: Insert of a key already stored fails with the duplicate-key error and
\* leaves the tree unchanged (nodes, root, count, renderings); the key is
\* still contained.
DuplicateRejected ==
    [][\A t \in TreeIds :
          (pc = "idle" /\ t \in live
             /\ \E k \in Keys : Contains(heap, root[t], k) /\ Insert(t, k))
          => /\ exc' = "invalid_argument"
             /\ pc' = "idle"
             /\ heap' = heap /\ root' = root /\ numItems' = numItems
             /\ ToInfixString(heap', root'[t]) = ToInfixString(heap, root[t])
             /\ \A k \in Keys : Contains(heap, root[t], k) => Contains(heap', root'[t], k)]_vars

\* C6 witness: a tree of several nodes on which an Insert has just been
\* rejected.
DuplicateRejectedWitness ==
    /\ pc = "idle"
    /\ exc = "invalid_argument"
    /\ numItems["T"] >= 3
    /\ given["T"] # Keys

\* C7: Contains(k) is true exactly for the keys given to the constructor or
\* to a successful Insert (for the copy: the keys of the source at the copy,
\* and those of its own successful Inserts).
ContainsExactlyGiven ==
    \A t \in TreeIds : Returned(t) =>
        \A k \in 0..(MaxKey + 1) : Contains(heap, root[t], k) <=> k \in given[t]

\* C7 witness: five keys, some keys never given, and children on both sides
\* of the root that have children themselves (rotations have happened).
ContainsExactlyGivenWitness ==
    /\ pc = "idle"
    /\ Cardinality(given["T"]) >= 5
    /\ given["T"] # Keys
    /\ \E k \in Keys : Contains(heap, root["T"], k) /\ heap[Get(heap, root["T"], k)].parent # NULL
                       /\ heap[Get(heap, root["T"], k)].left # NULL

\* A step of an Insert call on tree t.
InsertStepOn(t) == (pc = "idle" /\ pc' = "fixup" /\ self' = t) \/ (pc = "fixup" /\ self = t)

\* C8: after the copy, the two trees share no node, and no step of an Insert
\* on one of them changes the nodes, renderings or count of the other.
CopyIndependent ==
    /\ []("T2" \in live => NodesOf("T") \cap NodesOf("T2") = {})
    /\ [][ "T2" \in live =>
              /\ InsertStepOn("T2") => TreeView("T")' = TreeView("T")
              /\ InsertStepOn("T") => TreeView("T2")' = TreeView("T2") ]_vars

\* C8 witness: a copy of a non-empty tree, after which each tree has been
\* given a key that the other has not.
CopyIndependentWitness ==
    /\ pc = "idle"
    /\ "T2" \in live
    /\ given["T"] \cap given["T2"] # {}
    /\ given["T"] \ given["T2"] # {}
    /\ given["T2"] \ given["T"] # {}

\* Shape, keys and colours of the subtree at n, position by position.
RECURSIVE Shape(_, _)
Shape(h, n) ==
    IF n = NULL THEN << >>
    ELSE <<Shape(h, h[n].left), h[n].data, h[n].color, Shape(h, h[n].right)>>

\* C9: immediately after Copy the copy has the shape, keys, colours and count
\* of the source, and the same three renderings.
CopyEqualsSource ==
    [][("T2" \notin live /\ "T2" \in live') =>
          /\ Shape(heap', root'["T2"]) = Shape(heap', root'["T"])
          /\ numItems'["T2"] = numItems'["T"]
          /\ ToInfixString(heap', root'["T2"]) = ToInfixString(heap', root'["T"])
          /\ ToPrefixString(heap', root'["T2"]) = ToPrefixString(heap', root'["T"])
          /\ ToPostfixString(heap', root'["T2"]) = ToPostfixString(heap', root'["T"])]_vars

\* C9 witness: the copy of a tree of eight nodes with RED and BLACK inner
\* nodes, equal to its source.
CopyEqualsSourceWitness ==
    /\ pc = "idle"
    /\ "T2" \in live
    /\ numItems["T2"] >= 8
    /\ Shape(heap, root["T2"]) = Shape(heap, root["T"])
    /\ \E n \in NodesOf("T2") : IsRed(heap, n) /\ heap[n].left # NULL

Min(S) == CHOOSE m \in S : \A x \in S : m <= x
Max(S) == CHOOSE m \in S : \A x \in S : m >= x

\* C10: on a non-empty tree GetMin returns the smallest key stored and GetMax
\* the largest.
MinMaxCorrect ==
    \A t \in TreeIds : Returned(t) /\ root[t] # NULL =>
        /\ GetMin(heap, root[t]) = Min(KeysUnder(heap, root[t]))
        /\ GetMax(heap, root[t]) = Max(KeysUnder(heap, root[t]))
        /\ GetMin(heap, root[t]) = Min(given[t])
        /\ GetMax(heap, root[t]) = Max(given[t])

\* C10 witness: the tree holding 5, 3 and 8 with 5 at the root: Min = 3 and
\* Max = 8.
MinMaxCorrectWitness ==
    /\ pc = "idle"
    /\ given["T"] = {3, 5, 8}
    /\ heap[root["T"]].data = 5
    /\ GetMin(heap, root["T"]) = 3
    /\ GetMax(heap, root["T"]) = 8

\* C11: GetMin and GetMax on a tree with zero nodes both fail with the
\* empty-container error (underflow_error) instead of returning a key, and
\* the tree stays empty with count 0.
EmptyMinMaxThrows ==
    [][\A t \in TreeIds :
          (pc = "idle" /\ t \in live /\ numItems[t] = 0
             /\ (GetMinCall(t) \/ GetMaxCall(t)))
          => /\ exc' = "underflow_error"
             /\ heap' = heap /\ root' = root /\ numItems' = numItems
             /\ root'[t] = NULL /\ NodesOf(t)' = {}
             /\ numItems'[t] = 0]_vars

\* C11 witness: GetMin or GetMax has just thrown on the empty tree T.
EmptyMinMaxThrowsWitness ==
    /\ pc = "idle"
    /\ exc = "underflow_error"
    /\ numItems["T"] = 0
    /\ root["T"] = NULL

\* The Insert calls that succeeded on T so far were for the keys of seq, in
\* that order, and the last of them has returned.
AfterInserts(seq) == order.on /\ order.keys = seq /\ pc = "idle"

\* C12 (as stated): after inserting 10, 20, 30 in that order into an empty
\* tree the in-order render has the tokens B10, B20, B30 (with the separators
\* of the specification or with those of GetNodeString).
InfixAllBlack102030 ==
    AfterInserts(<<10, 20, 30>>) =>
        ToInfixString(heap, root["T"]) \in {"B10 B20 B30", " B10  B20  B30 "}

\* C12 (amended): after inserting 10, 20, 30 in that order into an empty tree
\* the in-order render is " R10  B20  R30 ": the tokens are R10, B20, R30.
InfixRender102030 ==
    AfterInserts(<<10, 20, 30>>) =>
        ToInfixString(heap, root["T"]) = " R10  B20  R30 "

\* C12 witness: 10, 20 and 30 have been inserted in that order.
InfixRender102030Witness ==
    /\ AfterInserts(<<10, 20, 30>>)
    /\ numItems["T"] = 3
    /\ ToInfixString(heap, root["T"]) # ""

\* The left, right and parent references of every node.
Structure(h) == [n \in DOMAIN h |-> <<h[n].left, h[n].right, h[n].parent>>]

\* The third Insert of the sequence 10, 20, 30 is inside InsertFixUp.
ThirdInsert102030 == order.on /\ order.keys = <<10, 20, 30>> /\ pc = "fixup"

\* C13: inserting 10, 20, 30 in that order into an empty tree makes the
\* third Insert do one left rotation, around the node 10; afterwards 20 is
\* the BLACK root, 10 its RED left child and 30 its RED right child.
LeftRotation102030 ==
    /\ [](ThirdInsert102030 /\ rotations = 0 =>
            /\ LoopCond(heap, node) /\ ~UncleIsRed(heap, node)
            /\ heap[node].data = 30
            /\ IsRightChild(heap, node) /\ IsRightChild(heap, heap[node].parent)
            /\ heap[Grandparent(heap, node)].data = 10)
    /\ [][ThirdInsert102030 /\ rotations = 0 =>
            LET r == LeftRotate(heap, root["T"], Get(heap, root["T"], 10))
            IN  /\ rotations' = 1
                /\ Structure(heap') = Structure(r.heap)
                /\ root'["T"] = r.root]_vars
    /\ [](ThirdInsert102030 /\ rotations = 1 => ~LoopCond(heap, node))
    /\ [](AfterInserts(<<10, 20, 30>>) =>
            Shape(heap, root["T"]) =
                << << << >>, 10, COLOR_RED, << >> >>, 20, COLOR_BLACK,
                   << << >>, 30, COLOR_RED, << >> >> >>)

\* C13 witness: the third Insert has done its rotation and 20 is the root.
LeftRotation102030Witness ==
    /\ ThirdInsert102030
    /\ rotations = 1
    /\ heap[root["T"]].data = 20
    /\ heap[heap[root["T"]].left].data = 10

\* The nodes that own n through a left or right reference.
Owners(h, n) == {p \in DOMAIN h : h[p].left = n \/ h[p].right = n}

\* Parent references and owning edges of the tree rooted at rt agree.
ParentsAgree(h, rt) ==
    /\ rt # NULL => h[rt].parent = NULL
    /\ \A n \in Nodes(h, rt) :
          /\ h[n].left # NULL => h[n].left # h[n].right
          /\ \A p \in Nodes(h, rt) :
                (h[n].parent = p) <=> (h[p].left = n \/ h[p].right = n)
          /\ h[n].parent # NULL => h[n].parent \in Nodes(h, rt)
          /\ Cardinality(Owners(h, n)) <= 1

\* C14: after every Insert, and after every rotation inside it, the parent
\* references agree with the owning edges: a node has parent p exactly when
\* it is p's left or right child (never both), the root has no parent, and
\* no node is the child of two nodes.
ParentLinksConsistent ==
    \A t \in live : ParentsAgree(heap, root[t])

\* C14 witness: an Insert on a tree of at least five nodes has just rotated
\* at a node below the root, so the rotation rewired three parent references.
ParentLinksConsistentWitness ==
    /\ pc = "fixup" /\ self = "T" /\ rotations >= 1
    /\ Cardinality(NodesOf("T")) >= 5
    /\ heap[node].parent # NULL
    /\ heap[heap[node].parent].parent # NULL

\* The fix-up loop run to its end (lines 115-143): heap and root after it.
RECURSIVE FixUpRun(_, _, _)
FixUpRun(h, rt, n) ==
    IF ~LoopCond(h, n) THEN [heap |-> h, root |-> rt]
    ELSE IF UncleIsRed(h, n)
         THEN LET r == Recolor(h, n) IN FixUpRun(r.heap, rt, r.node)
         ELSE LET r == RotationCase(h, rt, n) IN FixUpRun(r.heap, r.root, r.node)

\* A whole Insert(newData) on the tree t rooted at rt: heap and root after it.
InsertRun(h, rt, t, newData) ==
    IF IsDuplicate(h, rt, newData) THEN [heap |-> h, root |-> rt]
    ELSE LET newNode == New(h, t, newData)
             h0 == Store(h, newNode,
                         RBTNode(newData, COLOR_RED, NULL, NULL, NULL, FALSE))
             r  == BasicInsert(h0, rt, newNode)
             f  == FixUpRun(r.heap, r.root, newNode)
         IN  [heap |-> BlackenRoot(BlackenRoot(f.heap, f.root), f.root),
              root |-> f.root]

\* The key of the parent of n, NULL when n has no parent.
ParentKey(h, n) == IF h[n].parent = NULL THEN NULL ELSE h[h[n].parent].data

\* The tree under n with, for each node, its key, color and parent's key.
RECURSIVE LinkShape(_, _)
LinkShape(h, n) ==
    IF n = NULL THEN << >>
    ELSE <<LinkShape(h, h[n].left), h[n].data, h[n].color, ParentKey(h, n),
           LinkShape(h, h[n].right)>>

\* The step is the copy constructor.
CopyStep == "T2" \notin live /\ "T2" \in live'

\* C15: the copy constructor rebuilds the parent references of the copy:
\* every node below the copy's root has the copied node that owns it as its
\* parent and the copy's root has no parent, so that the next Insert of any
\* key on the copy yields the tree the same Insert yields on the source.
CopyRebuildsParents ==
    [][CopyStep =>
          /\ ParentsAgree(heap', root'["T2"])
          /\ root'["T2"] # NULL => heap'[root'["T2"]].parent = NULL
          /\ LinkShape(heap', root'["T2"]) = LinkShape(heap', root'["T"])
          /\ \A k \in Keys :
                LET s == InsertRun(heap', root'["T"], "T", k)
                    c == InsertRun(heap', root'["T2"], "T2", k)
                IN  LinkShape(c.heap, c.root) = LinkShape(s.heap, s.root)]_vars

\* C15 witness: an Insert on the copy has recolored its way up to the root
\* that the copy constructor created.
CopyRebuildsParentsWitness ==
    /\ pc = "fixup" /\ self = "T2"
    /\ numItems["T"] = 1
    /\ node = root["T2"]
    /\ heap[node].data = heap[root["T"]].data
    /\ heap[node].left # NULL /\ heap[node].right # NULL
    /\ heap[node].color = COLOR_RED

\* The step is one rotation iteration of the fix-up loop.
RotateStep == pc = "fixup" /\ rotations' = rotations + 1

\* The keys, colors and markers of all nodes.
Payload(h) == [n \in DOMAIN h |-> <<h[n].data, h[n].color, h[n].IsNullNode>>]

\* C16: LeftRotate and RightRotate are purely structural: for every pivot
\* the fix-up calls them on, the rotation changes no node's color or key,
\* keeps the set of nodes of the tree, and leaves the in-order key sequence
\* of the whole tree unchanged.
RotationsStructural ==
    [][RotateStep =>
          LET rt == root[self]
              r  == RotationCall(heap, rt, node)
          IN  /\ Payload(r.heap) = Payload(heap)
              /\ Nodes(r.heap, r.root) = Nodes(heap, rt)
              /\ InOrderKeys(r.heap, r.root) = InOrderKeys(heap, rt)
              /\ Structure(r.heap) # Structure(heap)
              /\ Structure(heap') = Structure(r.heap)
              /\ root'[self] = r.root
              /\ InOrderKeys(heap', root'[self]) = InOrderKeys(heap, rt)]_vars

\* C16 witness: a rotation has just been done at a pivot that has a parent
\* and whose inner grandchild subtree is not empty, in a tree of 7 nodes or
\* more.
RotationsStructuralWitness ==
    /\ pc = "fixup" /\ self = "T" /\ rotations = 1
    /\ Cardinality(NodesOf("T")) >= 7
    /\ heap[node].left # NULL /\ heap[node].right # NULL
    /\ root["T"] # node

\* The number of parent references from n up to the root.
RECURSIVE Depth(_, _)
Depth(h, n) == IF h[n].parent = NULL THEN 0 ELSE 1 + Depth(h, h[n].parent)

\* The step is an iteration of the fix-up loop that does not rotate.
NonRotateStep == pc = "fixup" /\ pc' = "fixup" /\ rotations' = rotations

\* C17: every Insert's fix-up loop terminates and does at most two
\* rotations in total; every other iteration is a recolor step (uncle RED)
\* that moves the current pointer strictly upward, to the grandparent.
FixUpTerminates ==
    /\ [](rotations <= 2)
    /\ [][NonRotateStep =>
            /\ UncleIsRed(heap, node)
            /\ node' = Grandparent(heap, node)
            /\ Depth(heap', node') = Depth(heap, node) - 2
            /\ Structure(heap') = Structure(heap)]_vars
    /\ [][RotateStep =>
            3 * Depth(heap', node') + (2 - rotations')
                < 3 * Depth(heap, node) + (2 - rotations)]_vars
    /\ (pc = "fixup" ~> pc = "idle")

\* C17 witness: a fix-up that first recolored its way up (the pointer is at
\* an inner node, not at the new leaf) and then rotated twice has reached
\* the end of its loop.
FixUpTerminatesWitness ==
    /\ pc = "fixup" /\ rotations = 2
    /\ ~LoopCond(heap, node)
    /\ heap[node].left # NULL /\ heap[node].right # NULL

\* node and its parent are children on the same side (lines 127 and 131).
SameSide(h, n) ==
    \/ IsLeftChild(h, n) /\ IsLeftChild(h, h[n].parent)
    \/ IsRightChild(h, n) /\ IsRightChild(h, h[n].parent)

\* The next iteration of the loop is a rotation case: straight-line or zig-zag.
StraightLine(h, n) == LoopCond(h, n) /\ ~UncleIsRed(h, n) /\ SameSide(h, n)
ZigZag(h, n) == LoopCond(h, n) /\ ~UncleIsRed(h, n) /\ ~SameSide(h, n)

\* The step resolves a straight-line case by one rotation around the
\* grandparent plus recoloring, and the loop condition fails afterwards.
StraightLineEndsLoop ==
    pc = "fixup" /\ StraightLine(heap, node) =>
        LET parent == heap[node].parent
            grandparent == Grandparent(heap, node)
        IN  /\ Structure(heap') = Structure(RotationCall(heap, root[self], node).heap)
            /\ heap'[grandparent].parent = parent
            /\ heap'[parent].color = COLOR_BLACK
            /\ heap'[grandparent].color = COLOR_RED
            /\ node' = node
            /\ ~LoopCond(heap', node')

\* C18 (as stated): in the zig-zag case, after the rotation around the
\* parent the current pointer is at the node that moved into the former
\* parent's position (the child of the grandparent), the next iteration is
\* the straight-line case, and the loop ends after it.
ZigZagPointerInParentPosition ==
    /\ [][pc = "fixup" /\ ZigZag(heap, node) =>
            /\ heap'[node'].parent = Grandparent(heap, node)
            /\ StraightLine(heap', node')]_vars
    /\ [][StraightLineEndsLoop]_vars

\* C18 (amended): in the zig-zag case, after the single rotation around the
\* parent the current pointer is at the former parent, which is now the
\* child of the node that moved into the former parent's position; the next
\* iteration is the straight-line case (one rotation around the grandparent
\* plus recoloring), and the loop ends after it.
ZigZagThenStraightLine ==
    /\ [][pc = "fixup" /\ ZigZag(heap, node) =>
            LET parent == heap[node].parent
                grandparent == Grandparent(heap, node)
            IN  /\ Structure(heap') = Structure(RotationCall(heap, root[self], node).heap)
                /\ Payload(heap') = Payload(heap)
                /\ heap'[node].parent = grandparent
                /\ heap'[parent].parent = node
                /\ node' = parent
                /\ StraightLine(heap', node')]_vars
    /\ [][StraightLineEndsLoop]_vars

\* C18 witness: the zig-zag rotation has been done and the straight-line
\* case is next.
ZigZagThenStraightLineWitness ==
    /\ pc = "fixup" /\ rotations = 1
    /\ StraightLine(heap, node)
    /\ heap[node].left = NULL /\ heap[node].right = NULL

\* The step is the recolor iteration of the fix-up loop (uncle RED).
RecolorStep == pc = "fixup" /\ LoopCond(heap, node) /\ UncleIsRed(heap, node)

\* C19: the recolor step (uncle RED) changes no structure: all left, right
\* and parent references and the root are unchanged; only the colors of the
\* parent and the uncle (to BLACK) and of the grandparent (to RED) change;
\* the current pointer moves to the grandparent; and the black-height
\* uniformity of the tree is preserved.
RecolorOnlyColors ==
    [][RecolorStep =>
          LET parent == heap[node].parent
              uncle == GetUncle(heap, node)
              grandparent == Grandparent(heap, node)
          IN  /\ Structure(heap') = Structure(heap)
              /\ root' = root
              /\ DOMAIN heap' = DOMAIN heap
              /\ \A n \in DOMAIN heap :
                    /\ heap'[n].data = heap[n].data
                    /\ n \notin {parent, uncle, grandparent} =>
                          heap'[n].color = heap[n].color
              /\ heap[parent].color = COLOR_RED /\ heap'[parent].color = COLOR_BLACK
              /\ heap[uncle].color = COLOR_RED /\ heap'[uncle].color = COLOR_BLACK
              /\ heap[grandparent].color = COLOR_BLACK
              /\ heap'[grandparent].color = COLOR_RED
              /\ node' = grandparent
              /\ pc' = "fixup" /\ rotations' = rotations
              /\ Cardinality(BlackCounts(heap, root[self])) = 1
              /\ BlackCounts(heap', root'[self]) = BlackCounts(heap, root[self])
              /\ \A n \in Nodes(heap, root[self]) :
                    Cardinality(BlackCounts(heap', n)) = 1]_vars

\* C19 witness: a recolor step has just moved the pointer to a grandparent
\* that is not the root; its two children are BLACK and it is RED.
RecolorOnlyColorsWitness ==
    /\ pc = "fixup" /\ rotations = 0
    /\ heap[node].left # NULL /\ heap[node].right # NULL
    /\ heap[node].color = COLOR_RED
    /\ heap[heap[node].left].color = COLOR_BLACK
    /\ heap[heap[node].right].color = COLOR_BLACK
    /\ heap[node].parent # NULL

\* C20: no absent node is dereferenced during Insert, for any sequence of
\* insertions on a tree that started empty, with a single key or as a copy:
\* in every iteration of the fix-up loop (the parent of the current node is
\* RED) the grandparent exists, the pivot of every LeftRotate has a right
\* child and the pivot of every RightRotate has a left child; the current
\* node and the root exist throughout.
NoAbsentDereference ==
    pc = "fixup" =>
        /\ node \in DOMAIN heap
        /\ root[self] \in DOMAIN heap
        /\ LoopCond(heap, node) =>
              LET parent == heap[node].parent
                  grandparent == heap[parent].parent
              IN  /\ grandparent \in DOMAIN heap
                  /\ IF UncleIsRed(heap, node) THEN TRUE
                     ELSE IF IsLeftChild(heap, node) /\ IsLeftChild(heap, parent)
                          THEN heap[grandparent].left \in DOMAIN heap
                     ELSE IF IsRightChild(heap, node) /\ IsRightChild(heap, parent)
                          THEN heap[grandparent].right \in DOMAIN heap
                     ELSE IF IsLeftChild(heap, node) /\ IsRightChild(heap, parent)
                          THEN /\ heap[parent].left \in DOMAIN heap
                               /\ RotateLeftRight(heap, root[self], node).node
                                     \in DOMAIN heap
                     ELSE /\ heap[parent].right \in DOMAIN heap
                          /\ RotateRightLeft(heap, root[self], node).node
                                \in DOMAIN heap

\* C20 witness: an Insert on the copy is about to rotate around the root
\* that the copy constructor created.
NoAbsentDereferenceWitness ==
    /\ pc = "fixup" /\ self = "T2"
    /\ numItems["T"] = 2 /\ numItems["T2"] = 2
    /\ LoopCond(heap, node) /\ ~UncleIsRed(heap, node)
    /\ Grandparent(heap, node) = root["T2"]
    /\ heap[root["T2"]].data = heap[root["T"]].data

====
